---- MODULE Spec2Model ----
(***************************************************************************)
(* A model of MarkerGroup (src/src/network.rs): one group of markers of a  *)
(* two-layer network whose parameters (b1, w1, w2) are sampled by HMC.     *)
(*                                                                         *)
(* f32 values are modelled in fixed point: the integer v stands for the    *)
(* real v / Scale, every product is rounded to the nearest representable   *)
(* value, and results whose magnitude exceeds FMax overflow to the IEEE    *)
(* infinities.  NaN, +inf and -inf behave as in IEEE-754.                  *)
(* Rust vectors are 0-based, TLA+ sequences 1-based: v[i] in the source is *)
(* v[i + 1] here.  A panic of the program is the state pc = "halted".      *)
(***************************************************************************)
EXTENDS Integers, Sequences, FiniteSets, TLC

\* ---------------------------------------------------------------- bounds
\* largest number of markers of a group (dim)
MaxDim == 1
\* largest number of individuals (length of the residual)
MaxN == 1
\* largest integration_length passed to sample_params
MaxL == 1
\* largest finite magnitude of the modelled f32, in units of 1 / Scale
FMax == 256

\* ------------------------------------------------------------ f32 values
\* fixed-point unit: the integer Scale stands for 1.0
Scale == 4

PInf == FMax + 1
NInf == 0 - (FMax + 1)
NaN == FMax + 2

\* An operator that reads an argument more than once binds it first, as the
\* element of a one-element set, so that the argument is computed once.
TheOne(S) == CHOOSE x \in S : TRUE

IsNaN(a) == a = NaN
IsInf(a) == TheOne({x = PInf \/ x = NInf : x \in {a}})
IsFinite(a) == TheOne({x # NaN /\ x # PInf /\ x # NInf : x \in {a}})

Abs(n) == TheOne({IF x < 0 THEN 0 - x ELSE x : x \in {n}})
Sign(n) == TheOne({IF x < 0 THEN 0 - 1 ELSE IF x > 0 THEN 1 ELSE 0 : x \in {n}})

\* an exact result n brought back into the representable range
Overflow(n) ==
    TheOne({IF x > FMax THEN PInf ELSE IF x < 0 - FMax THEN NInf ELSE x :
                x \in {n}})

\* the exact quotient n / d (d > 0) rounded to the nearest integer
RoundDiv(n, d) ==
    TheOne({Sign(x) * ((2 * Abs(x) + y) \div (2 * y)) : x \in {n}, y \in {d}})

FNeg(a) == TheOne({IF IsNaN(x) THEN NaN ELSE 0 - x : x \in {a}})

FAdd(a, b) ==
    TheOne({IF IsNaN(x) \/ IsNaN(y) THEN NaN
            ELSE IF IsInf(x) /\ IsInf(y) THEN (IF x = y THEN x ELSE NaN)
            ELSE IF IsInf(x) THEN x
            ELSE IF IsInf(y) THEN y
            ELSE Overflow(x + y) : x \in {a}, y \in {b}})

FSub(a, b) == FAdd(a, FNeg(b))

FMul(a, b) ==
    TheOne({IF IsNaN(x) \/ IsNaN(y) THEN NaN
            ELSE IF IsInf(x) \/ IsInf(y)
                 THEN (IF x = 0 \/ y = 0 THEN NaN
                       ELSE IF Sign(x) * Sign(y) > 0 THEN PInf ELSE NInf)
            ELSE Overflow(RoundDiv(x * y, Scale)) : x \in {a}, y \in {b}})

\* a / 2.
FHalf(a) ==
    TheOne({IF IsNaN(x) \/ IsInf(x) THEN x ELSE RoundDiv(x, 2) : x \in {a}})

\* IEEE comparisons: every comparison with NaN is false
FLt(a, b) == TheOne({~IsNaN(x) /\ ~IsNaN(y) /\ x < y : x \in {a}, y \in {b}})
FGe(a, b) == TheOne({~IsNaN(x) /\ ~IsNaN(y) /\ x >= y : x \in {a}, y \in {b}})
FLe(a, b) == TheOne({~IsNaN(x) /\ ~IsNaN(y) /\ x <= y : x \in {a}, y \in {b}})

\* f32::tanh, rounded to the fixed-point grid (Scale = 4)
TanhTable == <<1, 2, 3, 3, 3>>
FTanh(a) ==
    TheOne({IF IsNaN(x) THEN NaN
            ELSE IF x = 0 THEN 0
            ELSE IF Abs(x) > Len(TanhTable) THEN Sign(x) * Scale
            ELSE Sign(x) * TanhTable[Abs(x)] : x \in {a}})

\* f32::exp on arguments below zero, rounded to the fixed-point grid
ExpTable == <<3, 2, 2, 1, 1, 1, 1, 1>>
\* (acceptance_probability returns 1. before exp is reached for every argument
\* >= 0, so the only arguments are NaN and the values below zero)
FExp(a) ==
    TheOne({CASE IsNaN(x) -> NaN
              [] x = 0 -> Scale
              [] x < 0 /\ Abs(x) > Len(ExpTable) -> 0
              [] x < 0 /\ Abs(x) <= Len(ExpTable) -> ExpTable[Abs(x)] :
                x \in {a}})

activation_fn(x) == FTanh(x)

activation_fn_derivative(x) ==
    TheOne({FSub(Scale, FMul(t, t)) : t \in {FTanh(x)}})

\* ------------------------------------------------------- ndarray vectors
RECURSIVE SumTo(_, _)
\* f[1] + ... + f[n], accumulated from 0. in index order, f a sequence
SumTo(f, n) == IF n = 0 THEN 0 ELSE FAdd(SumTo(f, n - 1), f[n])

\* the sum of the entries of the sequence f
Sum(f) == TheOne({SumTo(g, Len(g)) : g \in {f}})

\* ArrayBase::dot on two vectors of one length
Dot(a, b) ==
    TheOne({Sum([i \in 1 .. Len(x) |-> FMul(x[i], y[i])]) : x \in {a}, y \in {b}})

\* the common shape of two 1-D operands of an arithmetic operator, 0 - 1 when
\* they cannot be broadcast together (the operator panics)
Bcast(n, m) == IF n = m THEN n ELSE IF n = 1 THEN m ELSE IF m = 1 THEN n ELSE 0 - 1

\* element i of v seen through a broadcast
At(v, i) == IF Len(v) = 1 THEN v[1] ELSE v[i]

\* &a * &b, a + b, a - b of two broadcastable vectors
VMul(a, b) ==
    TheOne({[i \in 1 .. Bcast(Len(x), Len(y)) |-> FMul(At(x, i), At(y, i))] :
                x \in {a}, y \in {b}})
VAdd(a, b) ==
    TheOne({[i \in 1 .. Bcast(Len(x), Len(y)) |-> FAdd(At(x, i), At(y, i))] :
                x \in {a}, y \in {b}})
VSub(a, b) ==
    TheOne({[i \in 1 .. Bcast(Len(x), Len(y)) |-> FSub(At(x, i), At(y, i))] :
                x \in {a}, y \in {b}})

\* scalar * vector, vector + scalar, mapv
SMul(c, a) ==
    TheOne({[i \in 1 .. Len(x) |-> FMul(k, x[i])] : k \in {c}, x \in {a}})
SAdd(a, c) ==
    TheOne({[i \in 1 .. Len(x) |-> FAdd(x[i], k)] : k \in {c}, x \in {a}})
MapTanh(a) ==
    TheOne({[i \in 1 .. Len(x) |-> activation_fn(x[i])] : x \in {a}})
MapTanhDerivative(a) ==
    TheOne({[i \in 1 .. Len(x) |-> activation_fn_derivative(x[i])] : x \in {a}})

\* self.scaled_add(alpha, rhs): self += alpha * rhs, rhs of the length of self
scaled_add(a, alpha, rhs) ==
    TheOne({[i \in 1 .. Len(x) |-> FAdd(x[i], FMul(k, y[i]))] :
                x \in {a}, k \in {alpha}, y \in {rhs}})

\* param_vec.slice(s![first..=last]) with 0-based first and last
Slice(v, first, last) ==
    TheOne({[i \in 1 .. (last - first + 1) |-> x[first + i]] : x \in {v}})

\* ------------------------------------------------------ genotype matrix
\* A matrix is a sequence of rows, one per individual, of genotypes in 0 .. 2.
Genotypes == 0 .. 2

\* BedVecCM::right_multiply_par: X . w, one entry per individual
right_multiply_par(x, w) ==
    TheOne({[i \in 1 .. Len(m) |->
                Sum([j \in 1 .. Len(y) |-> FMul(m[i][j] * Scale, y[j])])] :
                m \in {x}, y \in {w}})

\* BedVecCM::left_multiply_simd_v1_par: X^T . v, one entry per marker
left_multiply_simd_v1_par(x, ncols, v) ==
    TheOne({[j \in 1 .. ncols |->
                Sum([i \in 1 .. Len(m) |-> FMul(m[i][j] * Scale, y[i])])] :
                m \in {x}, y \in {v}})

\* --------------------------------------------------- results and panics
Ok(v) == [ok |-> TRUE, v |-> v, err |-> "none"]
Panic(e) == [ok |-> FALSE, v |-> <<>>, err |-> e]

\* ---------------------------------------------------------------- state
VARIABLES
    residual,            \* MarkerGroup.residual
    w1,                  \* MarkerGroup.w1
    b1,                  \* MarkerGroup.b1
    w2,                  \* MarkerGroup.w2
    lambda_w1,           \* MarkerGroup.lambda_w1
    lambda_b1,           \* MarkerGroup.lambda_b1
    lambda_w2,           \* MarkerGroup.lambda_w2
    lambda_e,            \* MarkerGroup.lambda_e
    bed_reader,          \* the genotype matrix the BedReader reads
    dim,                 \* MarkerGroup.dim
    marker_data,         \* MarkerGroup.marker_data: [some, m]
    pc,                  \* "idle", "loop", "integrate", "test" or "halted"
    panic,               \* why the program halted, "none" while it runs
    ret,                 \* what the last finished call returned: [op, val]
    step_size,           \* sample_params: argument
    integration_length,  \* sample_params: argument
    start_position,      \* sample_params: local
    position,            \* sample_params: local
    start_momentum,      \* sample_params: local
    momentum,            \* sample_params: local
    steps,               \* sample_params: leapfrog steps done in this proposal
    acc_prob,            \* sample_params: local of the last accept test
    rejected             \* a proposal of the running call has been rejected

group == <<residual, w1, b1, w2, lambda_w1, lambda_b1, lambda_w2, lambda_e,
           bed_reader, dim, marker_data>>
locals == <<step_size, integration_length, start_position, position,
            start_momentum, momentum, steps, acc_prob, rejected>>
vars == <<group, pc, panic, ret, locals>>

\* the MarkerGroup the methods read as self
Self ==
    [residual |-> residual, w1 |-> w1, b1 |-> b1, w2 |-> w2,
     lambda_w1 |-> lambda_w1, lambda_b1 |-> lambda_b1,
     lambda_w2 |-> lambda_w2, lambda_e |-> lambda_e,
     dim |-> dim, marker_data |-> marker_data]

None == [some |-> FALSE, m |-> <<>>]
Some(x) == [some |-> TRUE, m |-> x]

\* -------------------------------------------------------------- methods
\* Each method is written as a chain of operators, one per group of source
\* lines.  A value the source binds with let is bound here as the element of
\* a one-element set and handed to the next operator of the chain.

\* forward_feed with the missing binding read as a matrix without markers
forward_feed_unbound_as_empty(self, pb1, pw1, pw2) ==
    IF ~self.marker_data.some
    THEN Ok(SMul(pw2, MapTanh([i \in 1 .. Len(self.residual) |-> pb1])))
    ELSE Ok(SMul(pw2, MapTanh(SAdd(right_multiply_par(self.marker_data.m, pw1), pb1))))

forward_feed(self, pb1, pw1, pw2) ==
    IF ~self.marker_data.some THEN Panic("unwrap_none")
    ELSE Ok(SMul(pw2, MapTanh(SAdd(right_multiply_par(self.marker_data.m, pw1), pb1))))

\* rss, line 88: r.dot(&r)
SquaredNorm(r) == Dot(r, r)

\* rss, line 87, ff the result of forward_feed
RssOf(self, ff) ==
    IF ~ff.ok THEN ff
    ELSE Ok(TheOne({SquaredNorm(r) : r \in {VSub(self.residual, ff.v)}}))

rss(self, pb1, pw1, pw2) ==
    TheOne({RssOf(self, ff) : ff \in {forward_feed(self, pb1, pw1, pw2)}})

\* log_density, lines 104-105, r the result of rss
LogDensitySum(self, b1_part, w1_part, w2_part, r) ==
    IF ~r.ok THEN r
    ELSE Ok(FAdd(FAdd(FAdd(b1_part, w1_part), w2_part),
                 FMul(FHalf(self.lambda_e), r.v)))

\* log_density, lines 101-104
LogDensityParts(self, pb1, pw1, pw2) ==
    TheOne({LogDensitySum(self, b1_part, w1_part, w2_part, r) :
                b1_part \in {FMul(FMul(FHalf(FNeg(self.lambda_b1)), pb1), pb1)},
                w1_part \in {FMul(FHalf(FNeg(self.lambda_w1)), Dot(pw1, pw1))},
                w2_part \in {FMul(FMul(FHalf(FNeg(self.lambda_w2)), pw2), pw2)},
                r \in {rss(self, pb1, pw1, pw2)}})

log_density(self, pv) ==
    \* param_vec[0], the slice 1..=dim and param_vec[dim + 1] are bounds-checked
    IF Len(pv) < 1 \/ Len(pv) < self.dim + 1 \/ Len(pv) < self.dim + 2
    THEN Panic("index_out_of_bounds")
    ELSE TheOne({LogDensityParts(self, pb1, pw1, pw2) :
                    pb1 \in {pv[1]},
                    pw1 \in {Slice(pv, 1, self.dim)},
                    pw2 \in {pv[self.dim + 2]}})

\* log_density_gradient, lines 129-142: the assignment into the slice of the
\* gradient broadcasts its right-hand side to the length of the slice
GradientAssemble(pw1, g_b1, g_w1, g_w2) ==
    IF Len(g_w1) # Len(pw1) /\ Len(g_w1) # 1 THEN Panic("shape")
    ELSE Ok(<<g_b1>> \o [j \in 1 .. Len(pw1) |-> At(g_w1, j)] \o <<g_w2>>)

\* log_density_gradient, lines 128-141: the two dot products need vectors of
\* one length, the product in the w1 part needs broadcastable ones
GradientParts(self, pb1, pw1, pw2, a, h_prime_of_z, drss_dyhat, xt_h) ==
    IF Len(drss_dyhat) # Len(h_prime_of_z) THEN Panic("shape")
    ELSE IF Bcast(Len(drss_dyhat), Len(xt_h)) < 0 THEN Panic("shape")
    ELSE TheOne({GradientAssemble(pw1, g_b1, g_w1, g_w2) :
                    g_b1 \in {FAdd(FMul(FNeg(self.lambda_b1), pb1),
                                   FMul(pw2, Dot(drss_dyhat, h_prime_of_z)))},
                    g_w1 \in {VAdd(SMul(FNeg(self.lambda_w1), pw1),
                                   VMul(SMul(pw2, drss_dyhat), xt_h))},
                    g_w2 \in {FAdd(FMul(FNeg(self.lambda_w2), pw2),
                                   Dot(drss_dyhat, a))}})

\* log_density_gradient, lines 123-125 and 135-139; y_hat is &a * &self.w1
GradientResidual(self, pb1, pw1, pw2, z, a) ==
    IF Bcast(Len(a), Len(self.w1)) < 0 THEN Panic("shape")
    ELSE TheOne({GradientParts(self, pb1, pw1, pw2, a, h_prime_of_z,
                               drss_dyhat,
                               left_multiply_simd_v1_par(self.marker_data.m,
                                                         self.dim, h_prime_of_z)) :
                    h_prime_of_z \in {MapTanhDerivative(z)},
                    drss_dyhat \in {SMul(FNeg(self.lambda_e),
                                         VSub(VMul(a, self.w1), self.residual))}})

\* log_density_gradient, lines 121-122
GradientForward(self, pb1, pw1, pw2, x_times_w1) ==
    TheOne({GradientResidual(self, pb1, pw1, pw2, z, a) :
                z \in {SAdd(x_times_w1, pb1)},
                a \in {MapTanh(SAdd(x_times_w1, pb1))}})

log_density_gradient(self, pv) ==
    IF Len(pv) < 1 \/ Len(pv) < self.dim + 1 \/ Len(pv) < self.dim + 2
    THEN Panic("index_out_of_bounds")
    ELSE IF ~self.marker_data.some THEN Panic("unwrap_none")
    ELSE TheOne({GradientForward(self, pb1, pw1, pw2,
                                 right_multiply_par(self.marker_data.m, pw1)) :
                    pb1 \in {pv[1]},
                    pw1 \in {Slice(pv, 1, self.dim)},
                    pw2 \in {pv[self.dim + 2]}})

param_vec(self) == <<self.b1>> \o self.w1

\* MultivariateStandardNormalMomentum::log_density: -|p|^2 / 2 - (D / 2) ln(2 pi),
\* the constant (0.92 for each dimension) rounded to the fixed-point grid
momentum_log_density(p) ==
    FSub(FHalf(FNeg(Dot(p, p))), Len(p) * Scale)

\* neg_hamiltonian, line 192, ld the result of log_density
NegHamiltonianOf(ld, mom) ==
    IF ~ld.ok THEN ld ELSE Ok(FAdd(ld.v, momentum_log_density(mom)))

neg_hamiltonian(self, pos, mom) ==
    TheOne({NegHamiltonianOf(ld, mom) : ld \in {log_density(self, pos)}})

\* acceptance_probability, lines 184-187
AcceptanceOf(log_acc_probability) ==
    IF FGe(log_acc_probability, 0) THEN Scale ELSE FExp(log_acc_probability)

\* acceptance_probability, lines 182-183, hn and hi the two results of
\* neg_hamiltonian
AcceptanceDifference(hn, hi) ==
    IF ~hn.ok THEN hn
    ELSE IF ~hi.ok THEN hi
    ELSE Ok(TheOne({AcceptanceOf(d) : d \in {FSub(hn.v, hi.v)}}))

acceptance_probability(self, new_pos, new_mom, initial_pos, initial_mom) ==
    TheOne({AcceptanceDifference(hn, hi) :
                hn \in {neg_hamiltonian(self, new_pos, new_mom)},
                hi \in {neg_hamiltonian(self, initial_pos, initial_mom)}})

\* self.rng.gen_range(0.0..1.0) < acceptance_probability, u the number drawn
accept(u, acceptance_prob) == FLt(u, acceptance_prob)

\* leapfrog, line 198, g2 the gradient at the new position
LeapfrogSecondKick(pos1, mom1, eps, g2) ==
    IF ~g2.ok THEN g2
    ELSE Ok([position |-> pos1, momentum |-> scaled_add(mom1, FHalf(eps), g2.v)])

\* leapfrog, lines 197-198, pos1 the position after the drift
LeapfrogAfterDrift(self, pos1, mom1, eps) ==
    TheOne({LeapfrogSecondKick(pos1, mom1, eps, g2) :
                g2 \in {log_density_gradient(self, pos1)}})

\* leapfrog, line 197: scaled_add broadcasts the momentum to the position
LeapfrogDrift(self, pos, mom1, eps) ==
    IF Len(mom1) # Len(pos) /\ Len(mom1) # 1 THEN Panic("shape")
    ELSE TheOne({LeapfrogAfterDrift(self, pos1, mom1, eps) :
                    pos1 \in {scaled_add(pos, eps,
                                         [j \in 1 .. Len(pos) |-> At(mom1, j)])}})

\* leapfrog, line 196, g1 the gradient at the position
LeapfrogFirstKick(self, pos, mom, eps, g1) ==
    IF ~g1.ok THEN g1
    ELSE TheOne({LeapfrogDrift(self, pos, mom1, eps) :
                    mom1 \in {scaled_add(mom, FHalf(eps), g1.v)}})

leapfrog(self, pos, mom, eps) ==
    TheOne({LeapfrogFirstKick(self, pos, mom, eps, g1) :
                g1 \in {log_density_gradient(self, pos)}})

\* --------------------------------------------------------------- inputs
\* entries w1 is given with: -1., 0. and 1.
InitVals == {0 - Scale, 0, Scale}
\* values b1 and w2 are given with: 0. and 1.
BiasVals == {0, Scale}
\* entries the residual is given with: 0., 1. and 8.
ResidualVals == {0, Scale, 8 * Scale}
\* components of the vectors log_density and its gradient are called with
ThetaVals == {0, Scale}
\* components the momentum sampler draws
MomentumVals == {0 - Scale, Scale}
\* step sizes sample_params is called with: 0. and 1.
StepSizes == {0, Scale}
\* numbers gen_range(0.0..1.0) draws: 0., 0.25, 0.5 and 0.75
UniformVals == 0 .. (Scale - 1)

NoRet == [op |-> "none", arg |-> <<>>, val |-> <<>>]

\* vectors a caller passes to log_density and log_density_gradient: the
\* group's own param_vec() and vectors of the length dim + 2 of the layout
Thetas ==
    {param_vec(Self)} \cup
    {<<tb>> \o [j \in 1 .. dim |-> tw] \o <<t2>> :
        tb \in ThetaVals, tw \in ThetaVals, t2 \in ThetaVals}

\* vectors of length dim + 2 the momentum sampler returns
Momenta ==
    {<<pb>> \o [j \in 1 .. dim |-> pw] \o <<p2>> :
        pb \in MomentumVals, pw \in MomentumVals, p2 \in MomentumVals}

\* MarkerGroup::new: no argument is checked against another, so w1 is given
\* with dim or with dim + 1 entries; the matrix the reader delivers has one
\* row per entry of the residual and dim columns
Init ==
    /\ dim \in 0 .. MaxDim
    /\ \E len \in {dim, dim + 1}, v \in InitVals : w1 = [j \in 1 .. len |-> v]
    /\ \E n \in 1 .. MaxN :
          /\ \E v \in ResidualVals : residual = [i \in 1 .. n |-> v]
          /\ \E g \in [1 .. n -> Genotypes] :
                bed_reader = [i \in 1 .. n |-> [j \in 1 .. dim |-> g[i]]]
    /\ b1 \in BiasVals
    /\ w2 \in BiasVals
    /\ lambda_w1 = Scale
    /\ lambda_b1 = Scale
    /\ lambda_w2 = Scale
    /\ lambda_e = Scale
    /\ marker_data = None
    /\ pc = "idle"
    /\ panic = "none"
    /\ ret = NoRet
    /\ step_size = 0
    /\ integration_length = 0
    /\ start_position = <<>>
    /\ position = <<>>
    /\ start_momentum = <<>>
    /\ momentum = <<>>
    /\ steps = 0
    /\ acc_prob = 0
    /\ rejected = FALSE

\* -------------------------------------------------------------- actions
\* the locals of sample_params outside a call: the stack frame is gone
NoLocals ==
    /\ step_size' = 0
    /\ integration_length' = 0
    /\ start_position' = <<>>
    /\ position' = <<>>
    /\ start_momentum' = <<>>
    /\ momentum' = <<>>
    /\ steps' = 0
    /\ acc_prob' = 0
    /\ rejected' = FALSE

\* a panic: the program halts where it is and the stack unwinds
Halt(e) ==
    /\ pc' = "halted"
    /\ panic' = e
    /\ ret' = NoRet
    /\ NoLocals

load_marker_data ==
    /\ pc = "idle"
    /\ marker_data' = Some(bed_reader)
    /\ UNCHANGED <<residual, w1, b1, w2, lambda_w1, lambda_b1, lambda_w2,
                   lambda_e, bed_reader, dim, pc, panic, ret, locals>>

forget_marker_data ==
    /\ pc = "idle"
    /\ marker_data' = None
    /\ UNCHANGED <<residual, w1, b1, w2, lambda_w1, lambda_b1, lambda_w2,
                   lambda_e, bed_reader, dim, pc, panic, ret, locals>>

CallParamVec ==
    /\ pc = "idle"
    /\ ret' = [op |-> "param_vec", arg |-> <<>>, val |-> param_vec(Self)]
    /\ UNCHANGED <<group, pc, panic, locals>>

CallLogDensity(pv) ==
    /\ pc = "idle"
    /\ LET r == log_density(Self, pv) IN
       IF r.ok
       THEN /\ ret' = [op |-> "log_density", arg |-> pv, val |-> <<r.v>>]
            /\ UNCHANGED <<pc, panic, locals>>
       ELSE Halt(r.err)
    /\ UNCHANGED group

CallLogDensityGradient(pv) ==
    /\ pc = "idle"
    /\ LET r == log_density_gradient(Self, pv) IN
       IF r.ok
       THEN /\ ret' = [op |-> "log_density_gradient", arg |-> pv, val |-> r.v]
            /\ UNCHANGED <<pc, panic, locals>>
       ELSE Halt(r.err)
    /\ UNCHANGED group

\* sample_params, line 155: the call starts and reads the start position
sample_params(eps, len) ==
    /\ pc = "idle"
    /\ pc' = "loop"
    /\ step_size' = eps
    /\ integration_length' = len
    /\ start_position' = param_vec(Self)
    /\ position' = <<>>
    /\ start_momentum' = <<>>
    /\ momentum' = <<>>
    /\ steps' = 0
    /\ acc_prob' = 0
    /\ rejected' = FALSE
    /\ ret' = NoRet
    /\ UNCHANGED <<group, panic>>

\* the top of the loop with the position carried over from a rejected proposal
sample_momentum_from_endpoint(p) ==
    /\ pc = "loop"
    /\ pc' = "integrate"
    /\ position' = IF rejected THEN position ELSE start_position
    /\ start_momentum' = p
    /\ momentum' = p
    /\ steps' = 0
    /\ acc_prob' = 0
    /\ UNCHANGED <<group, panic, ret, step_size, integration_length,
                   start_position, rejected>>

\* sample_params, lines 157-159: the top of the loop, p the momentum drawn
sample_momentum(p) ==
    /\ pc = "loop"
    /\ pc' = "integrate"
    /\ position' = start_position
    /\ start_momentum' = p
    /\ momentum' = p
    /\ steps' = 0
    /\ acc_prob' = 0
    /\ UNCHANGED <<group, panic, ret, step_size, integration_length,
                   start_position, rejected>>

\* sample_params, lines 160-162: one pass of the for loop
leapfrog_step ==
    /\ pc = "integrate"
    /\ steps < integration_length
    /\ LET r == leapfrog(Self, position, momentum, step_size) IN
       IF r.ok
       THEN /\ position' = r.v.position
            /\ momentum' = r.v.momentum
            /\ steps' = steps + 1
            /\ UNCHANGED <<pc, panic, ret, step_size, integration_length,
                           start_position, start_momentum, acc_prob, rejected>>
       ELSE Halt(r.err)
    /\ UNCHANGED group

\* sample_params, lines 163-164: the acceptance probability of the endpoint
acceptance_step ==
    /\ pc = "integrate"
    /\ steps = integration_length
    /\ LET a == acceptance_probability(Self, position, momentum,
                                       start_position, start_momentum) IN
       IF a.ok
       THEN /\ pc' = "test"
            /\ acc_prob' = a.v
            /\ UNCHANGED <<panic, ret, step_size, integration_length,
                           start_position, position, start_momentum, momentum,
                           steps, rejected>>
       ELSE Halt(a.err)
    /\ UNCHANGED group

\* the accept test with the endpoint stored in the group before the test
accept_step_storing_endpoint(u) ==
    /\ pc = "test"
    /\ b1' = position[1]
    /\ w1' = [j \in 1 .. Len(w1) |-> position[j + 1]]
    /\ IF accept(u, acc_prob)
       THEN /\ pc' = "idle"
            /\ ret' = [op |-> "sample_params", arg |-> start_position,
                       val |-> position]
            /\ NoLocals
       ELSE /\ pc' = "loop"
            /\ rejected' = TRUE
            /\ UNCHANGED <<ret, step_size, integration_length, start_position,
                           position, start_momentum, momentum, steps, acc_prob>>
    /\ UNCHANGED <<residual, w2, lambda_w1, lambda_b1, lambda_w2, lambda_e,
                   bed_reader, dim, marker_data, panic>>

\* sample_params, lines 165-168: the accept test, u the uniform number drawn;
\* the call returns the position or goes round the loop
accept_step(u) ==
    /\ pc = "test"
    /\ IF accept(u, acc_prob)
       THEN /\ pc' = "idle"
            /\ ret' = [op |-> "sample_params", arg |-> start_position,
                       val |-> position]
            /\ NoLocals
       ELSE /\ pc' = "loop"
            /\ rejected' = TRUE
            /\ UNCHANGED <<ret, step_size, integration_length, start_position,
                           position, start_momentum, momentum, steps, acc_prob>>
    /\ UNCHANGED <<group, panic>>

Next ==
    \/ load_marker_data
    \/ forget_marker_data
    \/ CallParamVec
    \/ \E pv \in Thetas : CallLogDensity(pv)
    \/ \E pv \in Thetas : CallLogDensityGradient(pv)
    \/ \E eps \in StepSizes, len \in 0 .. MaxL : sample_params(eps, len)
    \/ \E p \in Momenta : sample_momentum(p)
    \/ leapfrog_step
    \/ acceptance_step
    \/ \E u \in UniformVals : accept_step(u)

Spec == Init /\ [][Next]_vars

\* the steps of a running sample_params call: the call runs on one thread
\* and nothing suspends it, so a step that can be taken is taken
SampleStep ==
    \/ \E p \in Momenta : sample_momentum(p)
    \/ leapfrog_step
    \/ acceptance_step
    \/ \E u \in UniformVals : accept_step(u)

FairSpec == Spec /\ WF_vars(SampleStep)

\* ------------------------------------------------------------ properties
\* C1: when sample_params has returned a vector, the stored parameters are that
\* vector: param_vec() called right after the return yields it.
C1_WriteBack ==
    (pc = "idle" /\ ret.op = "sample_params") => param_vec(Self) = ret.val

\* C2: param_vec() has the length dim + 2 and the layout b1, w1, w2, so
\* log_density can index it at dim + 1.
C2_Layout ==
    /\ Len(param_vec(Self)) = dim + 2
    /\ param_vec(Self)[1] = b1
    /\ \A j \in 1 .. dim : param_vec(Self)[j + 1] = w1[j]
    /\ param_vec(Self)[dim + 2] = w2
    /\ log_density(Self, param_vec(Self)).err # "index_out_of_bounds"

RECURSIVE LeapfrogN(_, _, _, _, _)
\* the point n leapfrog steps after (pos, mom)
LeapfrogN(self, pos, mom, eps, n) ==
    IF n = 0 THEN [position |-> pos, momentum |-> mom]
    ELSE leapfrog(self, LeapfrogN(self, pos, mom, eps, n - 1).position,
                  LeapfrogN(self, pos, mom, eps, n - 1).momentum, eps).v

\* C3: every proposal of a call, the first one and each one after a rejection,
\* starts from the position read at the start of the call with the momentum
\* drawn for it and is that point moved by one leapfrog step at a time; the
\* accept test sees the point integration_length steps on, and the call
\* returns only a tested endpoint that some uniform draw accepts.
C3_RestartFromStart ==
    [][/\ (pc' = "integrate" \/ pc' = "test") =>
            /\ steps' <= integration_length'
            /\ [position |-> position', momentum |-> momentum'] =
                   LeapfrogN(Self, start_position', start_momentum',
                             step_size', steps')
       /\ pc' = "test" => steps' = integration_length'
       /\ (pc = "test" /\ pc' = "loop") =>
            /\ rejected'
            /\ start_position' = start_position
       /\ (pc # "idle" /\ pc' = "idle") =>
            /\ pc = "test"
            /\ ret' = [op |-> "sample_params", arg |-> start_position,
                       val |-> position]
            /\ \E u \in UniformVals : accept(u, acc_prob)
      ]_vars

\* a proposal made after a rejection has run its steps and moved
C3_Witness ==
    /\ pc = "test"
    /\ rejected
    /\ integration_length > 0
    /\ position # start_position

\* a tested endpoint at which log_density is not finite
NonFiniteEndpoint ==
    /\ pc = "test"
    /\ log_density(Self, position).ok
    /\ ~IsFinite(log_density(Self, position).v)

\* C4: a proposal whose endpoint has a non-finite log_density is accepted by
\* no uniform draw.
C4_NonFiniteRejected ==
    NonFiniteEndpoint => \A u \in UniformVals : ~accept(u, acc_prob)

\* a running call whose start position has a non-finite log_density: the
\* difference of the two Hamiltonians of every proposal is then not finite
NonFiniteStart ==
    /\ pc = "loop"
    /\ log_density(Self, start_position).ok
    /\ ~IsFinite(log_density(Self, start_position).v)

\* C5: a call all of whose proposals are non-finite comes to an end.
C5_DivergenceSurfaced ==
    NonFiniteStart ~> (pc = "idle" \/ pc = "halted")

\* C6: log_density is minus a sum of non-negative terms, so it is never above 0.
C6_NonPositive ==
    (pc = "idle" /\ ret.op = "log_density") => FLe(ret.val[1], 0)

\* the group with other stored parameters
WithStored(pb1, pw1, pw2) ==
    [Self EXCEPT !.b1 = pb1, !.w1 = [j \in 1 .. Len(w1) |-> pw1], !.w2 = pw2]

\* C7: the value of log_density_gradient depends on its argument only: it is
\* the same whatever b1, w1 and w2 the group stores.
C7_ArgumentOnly ==
    (pc = "idle" /\ ret.op = "log_density_gradient" /\ marker_data.some) =>
        \A pb1 \in BiasVals, pw1 \in InitVals, pw2 \in BiasVals :
            /\ log_density_gradient(WithStored(pb1, pw1, pw2), ret.arg).ok
            /\ log_density_gradient(WithStored(pb1, pw1, pw2), ret.arg).v = ret.val

\* C8: the acceptance probability lies between 0 and 1, and is 1 when the
\* step size is 0.
C8_Probability ==
    pc = "test" =>
        /\ FLe(0, acc_prob)
        /\ FLe(acc_prob, Scale)
        /\ step_size = 0 => acc_prob = Scale

\* C9: a call of log_density or of log_density_gradient made while no marker
\* data is bound returns no value and halts the program, and one made while
\* marker data is bound does not halt on the missing binding.
C9_UnboundHalts ==
    [][/\ (/\ pc = "idle" /\ pc' = "idle"
           /\ ret' # ret
           /\ ret'.op \in {"log_density", "log_density_gradient"})
          => marker_data.some
       /\ (pc = "idle" /\ pc' = "halted" /\ marker_data.some)
          => panic' # "unwrap_none"
       /\ (pc = "idle" /\ pc' = "halted" /\ ~marker_data.some)
          => panic' \in {"unwrap_none", "index_out_of_bounds"}
      ]_vars

\* the program has halted on the missing binding
C9_Witness == pc = "halted" /\ panic = "unwrap_none"

\* C10: no step of a sample_params call changes the residual, a precision,
\* dim or the binding of the marker data, and no step other than the return
\* of an accepted endpoint changes the stored b1, w1 and w2.
C10_Frame ==
    [][(pc # "idle" \/ pc' # "idle") =>
          /\ UNCHANGED <<residual, lambda_w1, lambda_b1, lambda_w2, lambda_e,
                         dim, marker_data, bed_reader>>
          /\ ~(pc = "test" /\ pc' = "idle") => UNCHANGED <<b1, w1, w2>>
      ]_vars

\* a proposal has been rejected at an endpoint other than the stored parameters
C10_Witness ==
    /\ pc = "loop"
    /\ rejected
    /\ position # param_vec(Self)

====
